---------------------------- MODULE Spec2Model ----------------------------
(***************************************************************************)
(* A model of src/stock_bot.py: the stock-request pipeline of the bot.     *)
(*                                                                         *)
(* Texts are TLA+ strings (TLC evaluates Len, \o and SubSeq on them).      *)
(* Every emoji of the source is one code point for Python's len(); it is   *)
(* written here as one ASCII character (the Emoji... definitions), so the  *)
(* lengths are those of the source.  The backquote is written "%".         *)
(* The characters of capitals that a string cannot hold are written as    *)
(* private-use characters (CapitalStandIns).                               *)
(*                                                                         *)
(* A Python number is a record [t, d]: t = "int" with d its decimal        *)
(* digits, or t = "float" with d the digits of the value in hundredths     *)
(* (at least three digits: "245675" is 2456.75).  None is [t |-> "none"],  *)
(* and a str value is [t |-> "str"] with d the text.  Digit strings keep   *)
(* Python's unbounded integers (a market capitalisation of 10^12 and more  *)
(* does not fit TLC's integers).                                           *)
(*                                                                         *)
(* Three specifications: Spec, the handler taking the updates one after    *)
(* the other; ConcSpec, two runs of the coroutine handle_stock that may    *)
(* give way to each other at every await, over the one pyplot state of     *)
(* the process; LookupSpec, get_stock_data for a wider set of symbols.     *)
(* How many handlers the transport has in flight at once is settled        *)
(* outside handle_stock: ConcSpec allows every schedule of two, the        *)
(* one-after-the-other schedule of Spec among them.                        *)
(***************************************************************************)
EXTENDS Integers, Sequences, FiniteSets, TLC

-----------------------------------------------------------------------------
(* Text helpers: the str operations the source uses.                       *)

EmojiBarChart == "~"
EmojiMoneyBag == "^"
EmojiChartUp == "<"
EmojiChartYen == ">"
EmojiMemo == "|"
EmojiCross == "!"
EmojiCycle == "@"

\* The backquote of the source (a TLA+ string cannot hold one).
Backtick == "%"

CharAt(s, i) == SubSeq(s, i, i)

\* s[:n]
Prefix(s, n) == SubSeq(s, 1, IF n < Len(s) THEN n ELSE Len(s))

\* s[i:] with i counted from 1
Suffix(s, i) == SubSeq(s, i, Len(s))

\* s.endswith(t)
EndsWith(s, t) == Len(s) >= Len(t) /\ SubSeq(s, Len(s) - Len(t) + 1, Len(s)) = t

\* s.startswith(t) (used by the properties)
StartsWith(s, t) == Len(s) >= Len(t) /\ SubSeq(s, 1, Len(t)) = t

\* t in s (used by the properties)
Contains(s, t) == \E i \in 1..(Len(s) - Len(t) + 1) : SubSeq(s, i, i + Len(t) - 1) = t

\* s * n
RECURSIVE Repeat(_, _)
Repeat(s, n) ==
    IF n = 0 THEN ""
    ELSE LET h == Repeat(s, n \div 2)
         IN  h \o h \o (IF n % 2 = 1 THEN s ELSE "")

\* str.replace over the scan positions lo..hi of s, lo being a position the
\* scan reaches: the text produced and the first position after hi the scan
\* goes on from.  Matches are taken left to right and do not overlap; the
\* range is halved so that the evaluation stays shallow.
RECURSIVE ReplaceSeg(_, _, _, _, _)
ReplaceSeg(s, old, new, lo, hi) ==
    IF lo > hi THEN [out |-> "", next |-> lo]
    ELSE IF lo = hi
         THEN IF lo + Len(old) - 1 <= Len(s) /\ SubSeq(s, lo, lo + Len(old) - 1) = old
              THEN [out |-> new, next |-> lo + Len(old)]
              ELSE [out |-> CharAt(s, lo), next |-> lo + 1]
         ELSE LET l == ReplaceSeg(s, old, new, lo, (lo + hi) \div 2)
                  r == ReplaceSeg(s, old, new, l.next, hi)
              IN  [out |-> l.out \o r.out, next |-> r.next]

\* s.replace(old, new), old not empty
Replace(s, old, new) == ReplaceSeg(s, old, new, 1, Len(s)).out

-----------------------------------------------------------------------------
(* Numbers as digit strings.                                               *)

Digit(n) == CharAt("0123456789", n + 1)

DigitVal(c) == CHOOSE n \in 0..9 : Digit(n) = c

\* the decimal digits of the natural number n
RECURSIVE NatDigits(_)
NatDigits(n) == IF n < 10 THEN Digit(n) ELSE NatDigits(n \div 10) \o Digit(n % 10)

\* digits without leading zeros, at least one digit kept
StripZeros(d) ==
    LET nz == {i \in 1..Len(d) : CharAt(d, i) # "0"}
    IN  IF nz = {} THEN (IF Len(d) = 0 THEN "" ELSE "0")
        ELSE Suffix(d, CHOOSE i \in nz : \A j \in nz : i <= j)

\* digits + 1
RECURSIVE Inc(_)
Inc(d) ==
    IF Len(d) = 0 THEN "1"
    ELSE LET last == DigitVal(CharAt(d, Len(d)))
         IN  IF last < 9 THEN Prefix(d, Len(d) - 1) \o Digit(last + 1)
             ELSE Inc(Prefix(d, Len(d) - 1)) \o "0"

AllZeros(d) == \A i \in 1..Len(d) : CharAt(d, i) = "0"

\* d padded on the left with zeros to at least n digits
PadLeft(d, n) == IF Len(d) >= n THEN d ELSE Repeat("0", n - Len(d)) \o d

\* The digits d taken as d / 10^s and rounded to two decimals in decimal,
\* s >= 2 (no digit is dropped when s = 2).  This is what "%.2f" gives
\* whenever the digits dropped are no tie: see Fixed2.
DecimalFixed2(d, s) ==
    LET m == s - 2
        p == PadLeft(d, m + 3)
        q == Prefix(p, Len(p) - m)
        rem == Suffix(p, Len(p) - m + 1)
        up == m > 0 /\ DigitVal(CharAt(rem, 1)) >= 5
        r == IF up THEN Inc(q) ELSE q
    IN  StripZeros(Prefix(r, Len(r) - 2)) \o "." \o Suffix(r, Len(r) - 1)

\* the digits DecimalFixed2 drops are exactly one half of the last digit
\* kept
DecimalTie(d, s) ==
    LET m == s - 2
        p == PadLeft(d, m + 3)
        rem == Suffix(p, Len(p) - m + 1)
    IN  m > 0 /\ CharAt(rem, 1) = "5" /\ AllZeros(Suffix(rem, 2))

-----------------------------------------------------------------------------
(* Natural numbers beyond TLC's integers, for the arithmetic Python does   *)
(* on floats: a sequence of limbs in base 10^4, the least significant      *)
(* first and the last one not zero (zero is the empty sequence).           *)

\* the high zero limbs of a dropped
Norm(a) ==
    LET nz == {i \in 1..Len(a) : a[i] # 0}
    IN  IF nz = {} THEN <<>>
        ELSE SubSeq(a, 1, CHOOSE i \in nz : \A j \in nz : j <= i)

\* the value of up to four digits
RECURSIVE DigitsVal(_)
DigitsVal(s) ==
    IF Len(s) = 0 THEN 0
    ELSE 10 * DigitsVal(Prefix(s, Len(s) - 1)) + DigitVal(CharAt(s, Len(s)))

LimbsOf(d) ==
    [i \in 1..((Len(d) + 3) \div 4) |->
        DigitsVal(SubSeq(d, IF Len(d) - 4 * i + 1 < 1 THEN 1 ELSE Len(d) - 4 * i + 1,
                         Len(d) - 4 * i + 4))]

\* the number written with the digits d
ToBig(d) == Norm(LimbsOf(d))

\* the four digits of a limb
LimbDigits(n) ==
    Digit(n \div 1000) \o Digit((n \div 100) % 10) \o Digit((n \div 10) % 10)
        \o Digit(n % 10)

\* (the sequence is halved so that the evaluation stays shallow, here and
\* below)
RECURSIVE AllLimbDigits(_)
AllLimbDigits(a) ==
    IF Len(a) = 0 THEN ""
    ELSE IF Len(a) = 1 THEN LimbDigits(a[1])
    ELSE AllLimbDigits(SubSeq(a, Len(a) \div 2 + 1, Len(a)))
            \o AllLimbDigits(SubSeq(a, 1, Len(a) \div 2))

\* the digits of a, without leading zeros
BigDigits(a) == IF Len(a) = 0 THEN "0" ELSE StripZeros(AllLimbDigits(a))

BigLess(a, b) ==
    IF Len(a) # Len(b) THEN Len(a) < Len(b)
    ELSE \E i \in 1..Len(a) : a[i] < b[i] /\ \A j \in (i + 1)..Len(a) : a[j] = b[j]

Limb(a, i) == IF i <= Len(a) THEN a[i] ELSE 0

\* limbs and the carry out of them, as one number
WithCarry(r) == IF r.carry = 0 THEN r.s ELSE Append(r.s, r.carry)

\* the limbs lo..hi of a + b, carry coming in from below
RECURSIVE AddFrom(_, _, _, _, _)
AddFrom(a, b, lo, hi, carry) ==
    IF lo > hi THEN [s |-> <<>>, carry |-> carry]
    ELSE IF lo = hi
    THEN LET t == Limb(a, lo) + Limb(b, lo) + carry
         IN  [s |-> <<t % 10000>>, carry |-> t \div 10000]
    ELSE LET l == AddFrom(a, b, lo, (lo + hi) \div 2, carry)
             h == AddFrom(a, b, (lo + hi) \div 2 + 1, hi, l.carry)
         IN  [s |-> l.s \o h.s, carry |-> h.carry]

BigAdd(a, b) ==
    IF Len(a) = 0 THEN b
    ELSE IF Len(b) = 0 THEN a
    ELSE WithCarry(AddFrom(a, b, 1, IF Len(a) > Len(b) THEN Len(a) ELSE Len(b), 0))

\* the limbs lo..hi of a * k, carry coming in from below, for 0 < k <= 10^4
RECURSIVE MulFrom(_, _, _, _, _)
MulFrom(a, k, lo, hi, carry) ==
    IF lo > hi THEN [s |-> <<>>, carry |-> carry]
    ELSE IF lo = hi
    THEN LET t == a[lo] * k + carry
         IN  [s |-> <<t % 10000>>, carry |-> t \div 10000]
    ELSE LET l == MulFrom(a, k, lo, (lo + hi) \div 2, carry)
             h == MulFrom(a, k, (lo + hi) \div 2 + 1, hi, l.carry)
         IN  [s |-> l.s \o h.s, carry |-> h.carry]

MulSmall(a, k) == IF Len(a) = 0 THEN <<>> ELSE WithCarry(MulFrom(a, k, 1, Len(a), 0))

\* a * b^n, for b = 2 (in steps of 2^13) or b = 10 (in steps of 10^4)
RECURSIVE MulPow(_, _, _)
MulPow(a, b, n) ==
    LET step == IF b = 2 THEN 13 ELSE 4
    IN  IF n <= 0 \/ Len(a) = 0 THEN a
        ELSE IF n <= step THEN MulSmall(a, b ^ n)
        ELSE MulPow(MulPow(a, b, n \div 2), b, n - n \div 2)

\* the limbs lo..hi of a, with rem carried in from above them, divided by
\* k: the quotient limbs, the most significant first, and the remainder,
\* for 0 < k <= 10^4
RECURSIVE DivFrom(_, _, _, _, _)
DivFrom(a, k, lo, hi, rem) ==
    IF lo > hi THEN [q |-> <<>>, r |-> rem]
    ELSE IF lo = hi
    THEN LET cur == rem * 10000 + a[lo]
         IN  [q |-> <<cur \div k>>, r |-> cur % k]
    ELSE LET h == DivFrom(a, k, (lo + hi) \div 2 + 1, hi, rem)
             l == DivFrom(a, k, lo, (lo + hi) \div 2, h.r)
         IN  [q |-> h.q \o l.q, r |-> l.r]

QuotRem(d) == [q |-> Norm([i \in 1..Len(d.q) |-> d.q[Len(d.q) + 1 - i]]), r |-> d.r]

DivSmall(a, k) ==
    IF Len(a) = 0 THEN [q |-> <<>>, r |-> 0] ELSE QuotRem(DivFrom(a, k, 1, Len(a), 0))

\* floor(a / (2^twos * 10^tens)), and whether the division leaves nothing.
\* The powers are divided by in parts of at most 2^13 and 10^4: DivStep goes
\* on from the quotient and remainder d of one small division, DivNext from
\* the result of the first half of a power.
RECURSIVE DivPows(_, _, _, _)
DivStep(d, twos, tens, exact) == DivPows(d.q, twos, tens, exact /\ d.r = 0)

DivNext(first, twos, tens) == DivPows(first.q, twos, tens, first.exact)

DivPows(a, twos, tens, exact) ==
    IF Len(a) = 0 THEN [q |-> <<>>, exact |-> exact]
    ELSE IF twos > 13 THEN DivNext(DivPows(a, twos \div 2, 0, exact), twos - twos \div 2, tens)
    ELSE IF twos > 0 THEN DivStep(DivSmall(a, 2 ^ twos), 0, tens, exact)
    ELSE IF tens > 4 THEN DivNext(DivPows(a, 0, tens \div 2, exact), 0, tens - tens \div 2)
    ELSE IF tens > 0 THEN DivStep(DivSmall(a, 10 ^ tens), 0, 0, exact)
    ELSE [q |-> a, exact |-> exact]

IsOdd(a) == Len(a) > 0 /\ a[1] % 2 = 1

\* a - 1, for a > 0
BigDec(a) ==
    LET low == CHOOSE i \in 1..Len(a) : a[i] # 0 /\ \A j \in 1..(i - 1) : a[j] = 0
    IN  Norm([i \in 1..Len(a) |->
                 IF i < low THEN 9999 ELSE IF i = low THEN a[i] - 1 ELSE a[i]])

\* a / (2^twos * 10^tens) rounded to the nearest integer, a tie to the even
\* one: floor((2a + d) / 2d), less one when that division is exact and odd
TieToEven(f) == IF f.exact /\ IsOdd(f.q) THEN BigDec(f.q) ELSE f.q

RoundDiv(a, twos, tens) ==
    TieToEven(DivPows(BigAdd(MulSmall(a, 2), MulPow(MulPow(<<1>>, 2, twos), 10, tens)),
                      twos + 1, tens, TRUE))

\* the number of decimal digits of a (0 for zero)
NumDigits(a) == IF Len(a) = 0 THEN 0 ELSE Len(BigDigits(a))

-----------------------------------------------------------------------------
(* IEEE 754 doubles.  A value is [n, twos, tens]: n / (2^twos * 10^tens).  *)
(* The values of the model are far from the ends of the exponent range.    *)

Rat(n, twos, tens) == [n |-> n, twos |-> twos, tens |-> tens]

TwoTo52 == ToBig("4503599627370496")
TwoTo53 == ToBig("9007199254740992")

Pos(e) == IF e > 0 THEN e ELSE 0
Neg(e) == IF e < 0 THEN 0 - e ELSE 0

\* x / 2^e rounded down
FloorScaled(x, e) == DivPows(MulPow(x.n, 2, Neg(e)), x.twos + Pos(e), x.tens, TRUE).q

\* the exponent e with 2^52 <= x / 2^e < 2^53, looked for from the guess e
\* (f is x / 2^e rounded down)
RECURSIVE ExponentFrom(_, _)
ExponentStep(x, e, f) ==
    IF BigLess(f, TwoTo52) THEN ExponentFrom(x, e - 1)
    ELSE IF ~BigLess(f, TwoTo53) THEN ExponentFrom(x, e + 1)
    ELSE e

ExponentFrom(x, e) == ExponentStep(x, e, FloorScaled(x, e))

\* x rounded to a 53-bit mantissa times 2^e (a tie to the even mantissa)
FlAt(x, e) ==
    Rat(MulPow(RoundDiv(MulPow(x.n, 2, Neg(e)), x.twos + Pos(e), x.tens), 2, Pos(e)),
        Neg(e), 0)

\* the double nearest to x (a tie to the even mantissa), for x > 0; zero
\* stays zero
Fl(x) ==
    IF Len(x.n) = 0 THEN Rat(<<>>, 0, 0)
    ELSE FlAt(x, ExponentFrom(x, ((NumDigits(x.n) - x.tens) * 3322) \div 1000
                                      - x.twos - 53))

\* x = y, for two doubles (tens = 0)
SameDouble(x, y) == MulPow(x.n, 2, y.twos) = MulPow(y.n, 2, x.twos)

\* "%.2f" of the double x
Point2(r) == Prefix(r, Len(r) - 2) \o "." \o Suffix(r, Len(r) - 1)

Format2f(x) == Point2(PadLeft(BigDigits(RoundDiv(MulSmall(x.n, 100), x.twos, x.tens)), 3))

-----------------------------------------------------------------------------
(* Python values of the quote metadata (the provider's info dict).         *)

NA == [t |-> "str", d |-> "N/A"]
PyNone == [t |-> "none", d |-> "None"]
PyInt(d) == [t |-> "int", d |-> d]
PyFloat(d) == [t |-> "float", d |-> d]

\* info.get(k, 'N/A')
Get(info, k) == IF k \in DOMAIN info THEN info[k] ELSE NA

\* isinstance(v, (int, float))
IsNumber(v) == v.t \in {"int", "float"}

Scale(v) == IF v.t = "float" THEN 2 ELSE 0

\* v >= 10^k, for a number v
AtLeastPow10(v, k) == Len(StripZeros(v.d)) - Scale(v) >= k + 1

\* the float whose literal is d in hundredths, as the double it is
DoubleOf(d) == Fl(Rat(ToBig(d), 0, 2))

\* the double x divided by the int 10^k, the result a double (k = 0: x)
DoubleOver(x, k) == IF k = 0 THEN x ELSE Fl(Rat(x.n, x.twos, k))

\* f"{v / 10**k:.2f}" for a number v (k = 0: f"{v:.2f}").  An int divided by
\* an int gives the double nearest to the quotient, and an int formatted
\* alone goes through the double nearest to it; a float is a double before
\* it is divided.  "%.2f" then rounds the exact value of that double.  With
\* at most 15 digits and no decimal tie dropped, the double lies on the
\* same side of every tie as the decimal quotient (they differ by less than
\* one unit of the last digit of the quotient), and the result is the
\* decimal rounding.
Fixed2(v, k) ==
    LET d == StripZeros(v.d)
        hundredths == IF v.t = "float" THEN d ELSE d \o "00"
    IN  IF Len(d) <= 15 /\ ~DecimalTie(hundredths, k + 2)
        THEN DecimalFixed2(hundredths, k + 2)
        ELSE Format2f(IF v.t = "float" THEN DoubleOver(DoubleOf(d), k)
                      ELSE Fl(Rat(ToBig(d), 0, k)))

\* digits without the zeros at the end
StripTrailingZeros(d) ==
    LET nz == {i \in 1..Len(d) : CharAt(d, i) # "0"}
    IN  IF nz = {} THEN "" ELSE Prefix(d, CHOOSE i \in nz : \A j \in nz : j <= i)

\* digits * 10^shift as digits without the zeros at the end and the place of
\* the decimal point (the value is 0.digits * 10^point)
Placed(digits, shift) ==
    [digits |-> StripTrailingZeros(digits), point |-> shift + Len(digits)]

\* the decimal c * 10^(ints - p) reads back as the double x
ReadsBack(x, ints, p, c) ==
    SameDouble(Fl(Rat(MulPow(c, 10, ints - p), 0, Pos(p - ints))), x)

\* The other of the two p-digit decimals next to x: near is the nearer one
\* and f is x * 10^(p - ints) rounded down (near itself when x is a p-digit
\* decimal).
OtherNeighbour(near, f) ==
    IF f.exact THEN near
    ELSE IF near = f.q THEN BigAdd(f.q, <<1>>)
    ELSE f.q

\* The p-digit decimal that repr takes for x, if one reads back as x: the
\* nearer of the two next to x when it does, else the other one when that
\* one does.  17 digits always read back.
PickDecimal(x, ints, p, near, other) ==
    LET reads(c) == ReadsBack(x, ints, p, c)
        good == SelectSeq(<<near, other>>, reads)
    IN  IF p >= 17 THEN [ok |-> TRUE, c |-> near]
        ELSE IF Len(good) > 0 THEN [ok |-> TRUE, c |-> good[1]]
        ELSE [ok |-> FALSE, c |-> near]

NeighboursPick(x, ints, p, near) ==
    PickDecimal(x, ints, p, near,
                OtherNeighbour(near, DivPows(MulPow(x.n, 10, p - ints), x.twos,
                                             ints - p, TRUE)))

ShortestAt(x, ints, p) ==
    NeighboursPick(x, ints, p, RoundDiv(MulPow(x.n, 10, p - ints), x.twos, ints - p))

\* the first of the picks, one for each length from p on, that reads back
FirstOk(picks, p, ints) ==
    LET least == CHOOSE q \in DOMAIN picks :
                     picks[q].ok /\ \A r \in DOMAIN picks : picks[r].ok => q <= r
    IN  Placed(BigDigits(picks[least].c), ints - least)

\* The shortest digits that read back as the double x, x having ints
\* integer digits: of the least length p that has a decimal reading back
\* as x, the decimal nearest to x.
ShortestFrom(x, ints, p) == FirstOk([q \in p..17 |-> ShortestAt(x, ints, q)], p, ints)

\* the shortest digits of the double x, looked for from one digit
ShortestOf(x) == ShortestFrom(x, NumDigits(DivPows(x.n, x.twos, 0, TRUE).q), 1)

\* repr of the float written d in hundredths: its shortest digits.  A
\* literal of at most 15 digits is its own shortest form.
ReprDigits(d) ==
    LET s == StripZeros(d)
    IN  IF Len(StripTrailingZeros(s)) <= 15
        THEN [digits |-> StripTrailingZeros(s), point |-> Len(s) - 2]
        ELSE ShortestOf(DoubleOf(s))

\* str(v) of a float in hundredths, from the digits r of its shortest repr:
\* with one decimal at least, and in exponent form from 1e16 on
ReprText(r) ==
    LET n == Len(r.digits)
    IN  IF n = 0 THEN "0.0"
        ELSE IF r.point > 16
        THEN CharAt(r.digits, 1) \o (IF n > 1 THEN "." \o Suffix(r.digits, 2) ELSE "")
                \o "e+" \o PadLeft(NatDigits(r.point - 1), 2)
        ELSE IF r.point <= 0
        THEN "0." \o Repeat("0", 0 - r.point) \o r.digits
        ELSE IF n <= r.point
        THEN r.digits \o Repeat("0", r.point - n) \o ".0"
        ELSE Prefix(r.digits, r.point) \o "." \o Suffix(r.digits, r.point + 1)

FloatStr(d) == ReprText(ReprDigits(d))

\* str(v), which is also format(v, '')
Str(v) == IF v.t = "float" THEN FloatStr(v.d) ELSE v.d

\* digits with a comma between groups of three; in the text f of a float
\* the digits before the point or the exponent are grouped
RECURSIVE Group3(_)
Group3(d) ==
    IF Len(d) <= 3 THEN d
    ELSE LET right == 3 * ((Len(d) \div 3 + 1) \div 2)
         IN  Group3(Prefix(d, Len(d) - right)) \o "," \o Group3(Suffix(d, Len(d) - right + 1))

\* format(v, ','): a number is grouped; a str raises ValueError and None
\* raises TypeError.
GroupFloat(f) ==
    LET ints == CHOOSE i \in 1..Len(f) :
                    /\ CharAt(f, i + 1) \in {".", "e"}
                    /\ \A j \in 1..i : CharAt(f, j) \notin {".", "e"}
    IN  Group3(Prefix(f, ints)) \o Suffix(f, ints + 1)

CommaFormat(v) ==
    CASE v.t = "int" -> [raised |-> FALSE, text |-> Group3(v.d)]
      [] v.t = "float" -> [raised |-> FALSE, text |-> GroupFloat(FloatStr(v.d))]
      [] v.t = "str" -> [raised |-> TRUE, text |-> "Cannot specify ',' with 's'."]
      [] OTHER -> [raised |-> TRUE,
                   text |-> "unsupported format string passed to NoneType.__format__"]

-----------------------------------------------------------------------------
(* format_stock_message                                                    *)

\* lines 226-233: the market capitalisation with a unit suffix
FormatMarketCap(info) ==
    LET market_cap == Get(info, "marketCap")
    IN  IF IsNumber(market_cap)
        THEN IF AtLeastPow10(market_cap, 12)
                 THEN "$" \o Fixed2(market_cap, 12) \o "T"
             ELSE IF AtLeastPow10(market_cap, 9)
                 THEN "$" \o Fixed2(market_cap, 9) \o "B"
             ELSE IF AtLeastPow10(market_cap, 6)
                 THEN "$" \o Fixed2(market_cap, 6) \o "M"
             ELSE Str(market_cap)
        ELSE Str(market_cap)

\* lines 236-240: a price as "$%.2f", or 'N/A'
FormatPrice(v) == IF IsNumber(v) THEN "$" \o Fixed2(v, 0) ELSE "N/A"

\* lines 242-243
FormatRatio(v) == IF IsNumber(v) THEN Fixed2(v, 0) ELSE "N/A"

\* lines 246-251: the markup characters removed, one replace after the other
CleanAnalysis(analysis) ==
    Replace(Replace(Replace(Replace(Replace(analysis, "**", ""), "*", ""), Backtick, ""), "_", ""), "#", "")

\* The characters a string of this module can hold: those up to U+00FF,
\* and above it those whose code point ends in a byte of 0x80 or more.
\* Some capitals hold a character that a string cannot hold (the capital
\* U+0178 of the y with diaeresis is one).  As with the emoji, each such
\* character is written as one character of its own that has no capital
\* and is no blank, a private-use one: CapitalStandIns holds them, and
\* CapitalCodePoints, at the same places, the code points they stand for.
CapitalStandIns ==
    ""
    \o ""

CapitalCodePoints ==
    <<376, 544, 573, 579, 580, 581, 768, 769, 776, 778,
      780, 787, 817, 834, 895, 1042, 1044, 1054, 1057, 1058,
      1066, 1122, 1333, 1360, 1361, 1362, 1363, 1364, 1365, 1366,
      7776, 7944, 7945, 7946, 7947, 7948, 7949, 7950, 7951, 7976,
      7977, 7978, 7979, 7980, 7981, 7982, 7983, 8040, 8041, 8042,
      8043, 8044, 8045, 8046, 8047, 42570>>

\* The letters whose capital is one other character, and below, at the same
\* places, their capitals, as c.upper() gives them: a to z, the letters of
\* Latin-1 (the micro sign has the Greek capital mu) and the letters above
\* U+00FF that a string can hold.
LowerLetters ==
    "abcdefghijklmnopqrstuvwxyzµàáâãäåæçèéêëìíîïðñòóô"
    \o "õöøùúûüýþÿƀƃƅƈƌƒƕƙƚƞơƣƥƨƭưƴƶƹƽƿǅǆǈǉǋǌǎǐǒǔǖǘǚǜǝǟǡ"
    \o "ǣǥǧǩǫǭǯǲǳǵǹǻǽǿʀʂʃʇʈʉʊʋʌʒʝʞάέήίαβγδεζηθικλμνξοπρς"
    \o "στυφχψωϊϋόύώϐϑϕϖϗϙϛϝϟϡϣϥϧϩϫϭϯϰϱϲϳϵϸϻҁҋҍҏґғҕҗҙқҝҟ"
    \o "ҡңҥҧҩҫҭүұҳҵҷҹһҽҿӂӄӆӈӊӌӎӏӑӓӕӗәӛӝӟӡӣӥӧөӫӭӯӱӳӵӷӹӻӽӿ"
    \o "րցւփքօֆაბგდევზთიკლმნოპჟრსტუფქღყშჩცძწჭხჯჰჱჲჳჴჵჶჷჸ"
    \o "ჹჺჽჾჿᏸᏹᏺᏻᏼᏽᲀᲁᲂᲃᲄᲅᲆᲇᲈᶎẁẃẅẇẉẋẍẏẑẓẕẛạảấầẩẫậắằẳẵặẹẻẽ"
    \o "ếềểễệỉịọỏốồổỗộớờởỡợụủứừửữựỳỵỷỹỻỽỿᾰᾱιῐῑῠῡῥↄⓐⓑⓒⓓⓔⓕ"
    \o "ⓖⓗⓘⓙⓚⓛⓜⓝⓞⓟⓠⓡⓢⓣⓤⓥⓦⓧⓨⓩⲁⲃⲅⲇⲉⲋⲍⲏⲑⲓⲕⲗⲙⲛⲝⲟⲡⲣⲥⲧⲩⲫⲭⲯⲱⲳⲵⲷ"
    \o "ⲹⲻⲽⲿⳁⳃⳅⳇⳉⳋⳍⳏⳑⳓⳕⳗⳙⳛⳝⳟⳡⳣⳬⳮⳳꚁꚃꚅꚇꚉꚋꚍꚏꚑꚓꚕꚗꚙꚛꞁꞃꞅꞇꞌꞑꞓꞔꞗ"
    \o "ꞙꞛꞝꞟꞡꞣꞥꞧꞩꞵꞷꞹꞻꞽꞿꟁꟃꟈꟊꟑꟗꟙꟶꮀꮁꮂꮃꮄꮅꮆꮇꮈꮉꮊꮋꮌꮍꮎꮏꮐꮑꮒꮓꮔꮕꮖꮗꮘ"
    \o "ꮙꮚꮛꮜꮝꮞꮟꮠꮡꮢꮣꮤꮥꮦꮧꮨꮩꮪꮫꮬꮭꮮꮯꮰꮱꮲꮳꮴꮵꮶꮷꮸꮹꮺꮻꮼꮽꮾꮿ"

UpperLetters ==
    "ABCDEFGHIJKLMNOPQRSTUVWXYZΜÀÁÂÃÄÅÆÇÈÉÊËÌÍÎÏÐÑÒÓÔ"
    \o "ÕÖØÙÚÛÜÝÞƂƄƇƋƑǶƘƠƢƤƧƬƯƳƵƸƼǷǄǄǇǇǊǊǍǏǑǓǕǗǙǛƎǞǠ"
    \o "ǢǤǦǨǪǬǮǱǱǴǸǺǼǾƦꟅƩꞱƮƱƲƷꞲꞰΆΈΉΊΑΒΓΔΕΖΗΘΙΚΛΜΝΞΟΠΡΣ"
    \o "ΣΤΥΦΧΨΩΪΫΌΎΏΒΘΦΠϏϘϚϜϞϠϢϤϦϨϪϬϮΚΡϹΕϷϺҀҊҌҎҐҒҔҖҘҚҜҞ"
    \o "ҠҢҤҦҨҪҬҮҰҲҴҶҸҺҼҾӁӃӅӇӉӋӍӀӐӒӔӖӘӚӜӞӠӢӤӦӨӪӬӮӰӲӴӶӸӺӼӾ"
    \o "ᲐᲑᲒᲓᲔᲕᲖᲗᲘᲙᲚᲛᲜᲝᲞᲟᲠᲡᲢᲣᲤᲥᲦᲧᲨᲩᲪᲫᲬᲭᲮᲯᲰᲱᲲᲳᲴᲵᲶᲷᲸ"
    \o "ᲹᲺᲽᲾᲿᏰᏱᏲᏳᏴᏵꟆẀẂẄẆẈẊẌẎẐẒẔẠẢẤẦẨẪẬẮẰẲẴẶẸẺẼ"
    \o "ẾỀỂỄỆỈỊỌỎỐỒỔỖỘỚỜỞỠỢỤỦỨỪỬỮỰỲỴỶỸỺỼỾᾸᾹΙῘῙῨῩῬↃⒶⒷⒸⒹⒺⒻ"
    \o "ⒼⒽⒾⒿⓀⓁⓂⓃⓄⓅⓆⓇⓈⓉⓊⓋⓌⓍⓎⓏⲀⲂⲄⲆⲈⲊⲌⲎⲐⲒⲔⲖⲘⲚⲜⲞⲠⲢⲤⲦⲨⲪⲬⲮⲰⲲⲴⲶ"
    \o "ⲸⲺⲼⲾⳀⳂⳄⳆⳈⳊⳌⳎⳐⳒⳔⳖⳘⳚⳜⳞⳠⳢⳫⳭⳲꚀꚂꚄꚆꚈꚊꚌꚎꚐꚒꚔꚖꚘꚚꞀꞂꞄꞆꞋꞐꞒꟄꞖ"
    \o "ꞘꞚꞜꞞꞠꞢꞤꞦꞨꞴꞶꞸꞺꞼꞾꟀꟂꟇꟉꟐꟖꟘꟵᎰᎱᎲᎳᎴᎵᎶᎷᎸᎹᎺᎻᎼᎽᎾᎿᏀᏁᏂᏃᏄᏅᏆᏇᏈ"
    \o "ᏉᏊᏋᏌᏍᏎᏏᏐᏑᏒᏓᏔᏕᏖᏗᏘᏙᏚᏛᏜᏝᏞᏟᏠᏡᏢᏣᏤᏥᏦᏧᏨᏩᏪᏫᏬᏭᏮᏯ"

\* the letters whose capital is two or three characters (the sharp s gives
\* "SS"), and their capitals
SpecialLower ==
    "ßǰΐΰևẖẗẘẙẚᾀᾁᾂᾃᾄᾅᾆᾇᾈᾉᾊᾋᾌᾍᾎᾏᾐᾑᾒᾓᾔᾕᾖᾗᾘᾙᾚᾛᾜᾝᾞᾟᾠᾡᾢᾣᾤᾥ"
    \o "ᾦᾧᾨᾩᾪᾫᾬᾭᾮᾯᾲᾳᾴᾶᾷᾼῂῃῄῆῇῌῒΐῖῗῢΰῤῦῧῲῳῴῶῷῼ"

SpecialUpper ==
    <<"SS", "J", "Ι", "Υ", "", "H", "T",
      "W", "Y", "Aʾ", "Ι", "Ι", "Ι", "Ι",
      "Ι", "Ι", "Ι", "Ι", "Ι", "Ι", "Ι",
      "Ι", "Ι", "Ι", "Ι", "Ι", "Ι", "Ι",
      "Ι", "Ι", "Ι", "Ι", "Ι", "Ι", "Ι",
      "Ι", "Ι", "Ι", "Ι", "Ι", "Ι", "Ι",
      "Ι", "Ι", "Ι", "Ι", "Ι", "Ι", "Ι",
      "Ι", "Ι", "Ι", "Ι", "Ι", "Ι", "Ι",
      "Ι", "Ι", "ᾺΙ", "ΑΙ", "ΆΙ", "Α", "ΑΙ",
      "ΑΙ", "ῊΙ", "ΗΙ", "ΉΙ", "Η", "ΗΙ", "ΗΙ",
      "Ι", "Ι", "Ι", "Ι", "Υ", "Υ", "Ρ",
      "Υ", "Υ", "ῺΙ", "ΩΙ", "ΏΙ", "Ω", "ΩΙ",
      "ΩΙ">>

\* the capital of each letter of LowerLetters
UpperOf ==
    [c \in {CharAt(LowerLetters, i) : i \in 1..Len(LowerLetters)} |->
        CharAt(UpperLetters, CHOOSE i \in 1..Len(LowerLetters) : CharAt(LowerLetters, i) = c)]

\* c.upper() for one character
UpperChar(c) ==
    IF c \in DOMAIN UpperOf THEN UpperOf[c]
    ELSE IF \E i \in 1..Len(SpecialLower) : CharAt(SpecialLower, i) = c
    THEN SpecialUpper[CHOOSE i \in 1..Len(SpecialLower) : CharAt(SpecialLower, i) = c]
    ELSE c

\* s.upper()
RECURSIVE Upper(_)
Upper(s) ==
    IF Len(s) = 0 THEN ""
    ELSE IF Len(s) = 1 THEN UpperChar(s)
    ELSE Upper(Prefix(s, Len(s) \div 2)) \o Upper(Suffix(s, Len(s) \div 2 + 1))

\* The characters for which c.isspace() holds, of those a string can
\* hold: tab, line feed, vertical tab, form feed, carriage return, U+001C
\* to U+001F, the space, U+0085, the no-break space U+00A0 and the ogham
\* space mark U+1680, in this order.  (A string cannot hold the other
\* blanks: U+2000 to U+200A, U+2028, U+2029, U+202F, U+205F, U+3000.)
Whitespace == "\t\n\f\r   "

IsSpace(c) == \E i \in 1..Len(Whitespace) : CharAt(Whitespace, i) = c

\* s.strip()
Strip(s) ==
    LET kept == {i \in 1..Len(s) : ~IsSpace(CharAt(s, i))}
    IN  IF kept = {} THEN ""
        ELSE SubSeq(s, CHOOSE i \in kept : \A j \in kept : i <= j,
                       CHOOSE i \in kept : \A j \in kept : j <= i)

\* lines 254-262: the message before the length check
ComposeMessage(symbol, stock_data, analysis) ==
    LET info == stock_data.info
    IN  "~ *" \o Upper(symbol) \o " Stock Analysis*\n\n^ Current Price: "
            \o FormatPrice(Get(info, "currentPrice"))
            \o "\n< Previous Close: " \o FormatPrice(Get(info, "previousClose"))
            \o "\n> Market Cap: " \o FormatMarketCap(info)
            \o "\n~ P/E Ratio: " \o FormatRatio(Get(info, "trailingPE"))
            \o "\n\n| *Analysis*:\n" \o CleanAnalysis(analysis) \o "\n\n"

CaptionLimit == 1000
CaptionKeep == 997

\* Faulty variant of TruncateMessage (C10 must detect it): the cut is made
\* at the limit, and the ellipsis comes on top of it.
TruncateMessageCutAtLimit(message) ==
    IF Len(message) > CaptionLimit THEN Prefix(message, CaptionLimit) \o "..." ELSE message

\* lines 264-268: the message cut to the caption limit
TruncateMessage(message) ==
    IF Len(message) > CaptionLimit THEN Prefix(message, CaptionKeep) \o "..." ELSE message

format_stock_message(symbol, stock_data, analysis) ==
    TruncateMessage(ComposeMessage(symbol, stock_data, analysis))

-----------------------------------------------------------------------------
(* get_perplexity_analysis                                                 *)

\* lines 158-166: the prompt.  The replacement fields are evaluated in the
\* order of the text; the first that raises ends the evaluation.
BuildPrompt(stock_data) ==
    LET info == stock_data.info
        cap == CommaFormat(Get(info, "marketCap"))
        vol == CommaFormat(Get(info, "volume"))
    IN  IF cap.raised THEN [raised |-> TRUE, text |-> cap.text]
        ELSE IF vol.raised THEN [raised |-> TRUE, text |-> vol.text]
        ELSE [raised |-> FALSE,
              text |-> "Analyze the following stock data and provide a very concise 3-4 sentence summary:\n    Current Price: $"
                    \o Str(Get(info, "currentPrice"))
                    \o "\n    Market Cap: $" \o cap.text
                    \o "\n    P/E Ratio: " \o Str(Get(info, "trailingPE"))
                    \o "\n    52-Week High: $" \o Str(Get(info, "fiftyTwoWeekHigh"))
                    \o "\n    52-Week Low: $" \o Str(Get(info, "fiftyTwoWeekLow"))
                    \o "\n    Volume: " \o vol.text
                    \o "\n    \n    Focus on: 1) Current position vs 52-week range, 2) Key valuation insight from P/E ratio, 3) Brief outlook. Use plain text without markdown formatting."]

\* lines 168-219: what the function returns for a provider response.
\*   timeout        requests.exceptions.Timeout
\*   request_error  another RequestException, text its message
\*   http           a status other than 200, text the body
\*   no_choices     status 200, no 'choices' or an empty list
\*   malformed      status 200, choices[0] without 'message' (KeyError)
\*   content        status 200, text = choices[0]['message']['content']
AnalysisOfResponse(response) ==
    CASE response.kind = "timeout" -> "Unable to generate analysis: Request timed out"
      [] response.kind = "request_error" ->
            "Unable to generate analysis: Network error - " \o response.text
      [] response.kind = "http" -> "Unable to generate analysis. Error: " \o response.text
      [] response.kind = "no_choices" ->
            "Unable to generate analysis: Unexpected API response format"
      [] response.kind = "malformed" -> "Unable to generate analysis: 'message'"
      [] OTHER -> response.text

\* Faulty variant of get_perplexity_analysis (C7 must detect it): no except
\* clause takes the Timeout, which leaves the function.
get_perplexity_analysis_TimeoutUncaught(stock_data, response) ==
    LET prompt == BuildPrompt(stock_data)
    IN  IF prompt.raised
        THEN [raised |-> TRUE, text |-> prompt.text, requested |-> FALSE]
        ELSE IF response.kind = "timeout"
        THEN [raised |-> TRUE, text |-> "Read timed out.", requested |-> TRUE]
        ELSE [raised |-> FALSE, text |-> AnalysisOfResponse(response), requested |-> TRUE]

\* The prompt is built before the try statement (line 158): an exception of
\* its evaluation leaves the function, and no request is sent.
get_perplexity_analysis(stock_data, response) ==
    LET prompt == BuildPrompt(stock_data)
    IN  IF prompt.raised
        THEN [raised |-> TRUE, text |-> prompt.text, requested |-> FALSE]
        ELSE [raised |-> FALSE, text |-> AnalysisOfResponse(response), requested |-> TRUE]

-----------------------------------------------------------------------------
(* get_stock_data                                                          *)

AllowList == {"RELIANCE", "TCS", "HDFCBANK", "INFY", "SBIN", "TATAMOTORS", "WIPRO"}

\* Faulty variant of ResolveSymbol (C11 must detect it): every symbol
\* without a suffix gets ".NS", on the allow-list or not.
ResolveSymbolAnyToken(symbol) ==
    IF ~(EndsWith(symbol, ".NS") \/ EndsWith(symbol, ".BO"))
    THEN symbol \o ".NS"
    ELSE symbol

\* lines 62-66: the symbol the provider is asked for
ResolveSymbol(symbol) ==
    IF ~(EndsWith(symbol, ".NS") \/ EndsWith(symbol, ".BO")) /\ symbol \in AllowList
    THEN symbol \o ".NS"
    ELSE symbol

Call(op, arg, res) == [op |-> op, arg |-> arg, res |-> res]

\* a provider lookup in the log of calls: the symbol asked for, how the
\* provider answered, and the answer itself
LookupCall(op, symbol, resp) ==
    [op |-> op, arg |-> symbol, res |-> resp.kind, answer |-> resp]

\* line 74: not info or 'regularMarketPrice' not in info
NoUsableInfo(infoResp) ==
    \/ infoResp.kind = "none"
    \/ DOMAIN infoResp.info = {}
    \/ "regularMarketPrice" \notin DOMAIN infoResp.info

\* Faulty variant of NoDataError (C6 must detect it): the hint is given
\* whatever the symbol looked up.
NoDataErrorAlwaysHint(original_symbol, symbol) ==
    "No data available for " \o symbol
        \o ". If this is an Indian stock, try adding .NS (for NSE) or .BO (for BSE) to the symbol."

\* lines 78-84
NoDataError(original_symbol, symbol) ==
    IF original_symbol = symbol
    THEN "No data available for " \o symbol
            \o ". If this is an Indian stock, try adding .NS (for NSE) or .BO (for BSE) to the symbol."
    ELSE "No data available for this symbol. Please check if the symbol is correct."

\* Faulty variant of get_stock_data (C16 must detect it): the series is not
\* looked at before it is returned.
get_stock_data_EmptyAccepted(original_symbol, infoResp, histResp) ==
    LET symbol == ResolveSymbol(original_symbol)
        infoCall == LookupCall("info_lookup", symbol, infoResp)
        histCall == LookupCall("history_lookup", symbol, histResp)
    IN  IF infoResp.kind = "raise"
        THEN [raised |-> FALSE,
              result |-> [success |-> FALSE, error |-> infoResp.text],
              lookups |-> <<infoCall>>]
        ELSE IF NoUsableInfo(infoResp)
        THEN [raised |-> FALSE,
              result |-> [success |-> FALSE, error |-> NoDataError(original_symbol, symbol)],
              lookups |-> <<infoCall>>]
        ELSE IF histResp.kind = "raise"
        THEN [raised |-> FALSE,
              result |-> [success |-> FALSE, error |-> histResp.text],
              lookups |-> <<infoCall, histCall>>]
        ELSE [raised |-> FALSE,
              result |-> [info |-> infoResp.info, history |-> histResp.history,
                          success |-> TRUE],
              lookups |-> <<infoCall, histCall>>]

\* Faulty variant of get_stock_data (C15 must detect it): the try statement
\* ends before the history lookup, so what stock.history raises leaves the
\* function.
get_stock_data_HistoryUncaught(original_symbol, infoResp, histResp) ==
    LET symbol == ResolveSymbol(original_symbol)
        infoCall == LookupCall("info_lookup", symbol, infoResp)
        histCall == LookupCall("history_lookup", symbol, histResp)
    IN  IF infoResp.kind = "raise"
        THEN [raised |-> FALSE,
              result |-> [success |-> FALSE, error |-> infoResp.text],
              lookups |-> <<infoCall>>]
        ELSE IF NoUsableInfo(infoResp)
        THEN [raised |-> FALSE,
              result |-> [success |-> FALSE, error |-> NoDataError(original_symbol, symbol)],
              lookups |-> <<infoCall>>]
        ELSE IF histResp.kind = "raise"
        THEN [raised |-> TRUE, text |-> histResp.text,
              lookups |-> <<infoCall, histCall>>]
        ELSE IF Len(histResp.history) = 0
        THEN [raised |-> FALSE,
              result |-> [success |-> FALSE, error |-> "No historical data available"],
              lookups |-> <<infoCall, histCall>>]
        ELSE [raised |-> FALSE,
              result |-> [info |-> infoResp.info, history |-> histResp.history,
                          success |-> TRUE],
              lookups |-> <<infoCall, histCall>>]

\* lines 58-107.  infoResp is what stock.info yields (kind "raise" with the
\* exception text, "none", or "value" with the dict), histResp what
\* stock.history yields (kind "raise", or "value" with the closing prices).
\* The result and the provider lookups made, in order; raised tells whether
\* an exception left the function (the except clause of line 105 takes all
\* that the body raises, so it never does).
get_stock_data(original_symbol, infoResp, histResp) ==
    LET symbol == ResolveSymbol(original_symbol)
        infoCall == LookupCall("info_lookup", symbol, infoResp)
        histCall == LookupCall("history_lookup", symbol, histResp)
    IN  IF infoResp.kind = "raise"
        THEN [raised |-> FALSE,
              result |-> [success |-> FALSE, error |-> infoResp.text],
              lookups |-> <<infoCall>>]
        ELSE IF NoUsableInfo(infoResp)
        THEN [raised |-> FALSE,
              result |-> [success |-> FALSE, error |-> NoDataError(original_symbol, symbol)],
              lookups |-> <<infoCall>>]
        ELSE IF histResp.kind = "raise"
        THEN [raised |-> FALSE,
              result |-> [success |-> FALSE, error |-> histResp.text],
              lookups |-> <<infoCall, histCall>>]
        ELSE IF Len(histResp.history) = 0
        THEN [raised |-> FALSE,
              result |-> [success |-> FALSE, error |-> "No historical data available"],
              lookups |-> <<infoCall, histCall>>]
        ELSE [raised |-> FALSE,
              result |-> [info |-> infoResp.info, history |-> histResp.history,
                          success |-> TRUE],
              lookups |-> <<infoCall, histCall>>]

-----------------------------------------------------------------------------
(* generate_chart over pyplot's figure stack.  figures is the stack in the *)
(* order pyplot keeps it, the last one being the current figure; a figure  *)
(* is [num, lines], lines the series drawn on it.                          *)

\* pyplot.figure(): a new figure, numbered after the highest open one
NewFigure(figs) ==
    LET nums == {figs[i].num : i \in 1..Len(figs)}
        next == IF nums = {} THEN 1 ELSE (CHOOSE n \in nums : \A m \in nums : m <= n) + 1
    IN  Append(figs, [num |-> next, lines |-> <<>>])

\* pyplot.clf(): gcf().clear(); gcf() opens a figure when none is open
Clf(figs) ==
    LET open == IF Len(figs) = 0 THEN NewFigure(figs) ELSE figs
    IN  [open EXCEPT ![Len(open)].lines = <<>>]

\* ax.plot(...) on the axes of the figure line 120 created (the last)
PlotOn(figs, history) == [figs EXCEPT ![Len(figs)].lines = history]

\* plt.close(fig) for the figure line 120 created (the last)
CloseLast(figs) == SubSeq(figs, 1, Len(figs) - 1)

\* Faulty variant of SaveFig (C13 must detect it): the image is taken from
\* the oldest open figure, not from the current one.
SaveFigOldest(figs) == [png |-> figs[1].lines]

\* plt.savefig(buf): the current figure as an image
SaveFig(figs) == [png |-> figs[Len(figs)].lines]

\* lines 109-149.  failure is where the drawing library raises: "none",
\* "use" (line 114), "plot" (line 124) or "savefig" (line 140); text is the
\* message of what it raises.
generate_chart(figs, history, failure, text) ==
    LET cleared == Clf(figs)
        created == NewFigure(cleared)
        plotted == PlotOn(created, history)
        error == "Failed to generate chart: " \o text
    IN  CASE failure = "use" -> [raised |-> TRUE, text |-> error, figures |-> figs]
          [] failure = "plot" -> [raised |-> TRUE, text |-> error, figures |-> created]
          [] failure = "savefig" -> [raised |-> TRUE, text |-> error, figures |-> plotted]
          [] OTHER -> [raised |-> FALSE, buf |-> SaveFig(plotted),
                       figures |-> CloseLast(plotted)]

-----------------------------------------------------------------------------
(* The inputs of the model: what the user sends and what the providers,    *)
(* the drawing library and the chat transport answer.                      *)

\* requests handled one after the other by the process
MaxRequests == 2
\* the longest analysis text the provider returns
MaxContentLen == 866

Texts == {"RELIANCE", " tcs ", "AAPL", "infy.bo"}

QuoteFull ==
    [regularMarketPrice |-> PyFloat("245675"), currentPrice |-> PyFloat("245675"),
     previousClose |-> PyInt("2440"), marketCap |-> PyInt("16584091664384"),
     trailingPE |-> PyFloat("2850"), fiftyTwoWeekHigh |-> PyFloat("285615"),
     fiftyTwoWeekLow |-> PyFloat("222030"), volume |-> PyInt("5234567")]

QuoteSparse ==
    [regularMarketPrice |-> PyInt("150"), marketCap |-> PyInt("999999"),
     volume |-> PyInt("0")]

\* no market capitalisation
QuoteNoCap ==
    [regularMarketPrice |-> PyInt("150"), currentPrice |-> PyInt("150"),
     previousClose |-> PyFloat("14950"), trailingPE |-> PyInt("7"),
     volume |-> PyInt("1200")]

\* the provider's null for the volume and the ratio
QuoteNoneVolume ==
    [regularMarketPrice |-> PyFloat("3105"), currentPrice |-> PyFloat("3105"),
     previousClose |-> PyFloat("3090"), marketCap |-> PyInt("3400000000"),
     trailingPE |-> PyNone, volume |-> PyNone]

\* metadata without the live price field
QuoteNoPrice == [shortName |-> [t |-> "str", d |-> "Unknown"]]

InfoResponses ==
    {[kind |-> "raise", text |-> "Too Many Requests. Rate limited."],
     [kind |-> "none"],
     [kind |-> "value", info |-> [k \in {} |-> NA]]}
    \cup {[kind |-> "value", info |-> i] :
            i \in {QuoteNoPrice, QuoteFull, QuoteSparse, QuoteNoCap, QuoteNoneVolume}}

HistoryResponses ==
    {[kind |-> "raise", text |-> "Connection aborted."],
     [kind |-> "value", history |-> <<>>],
     [kind |-> "value", history |-> <<2440, 2461, 2456>>],
     [kind |-> "value", history |-> <<151, 149>>]}

ChartFailures == {"none", "use", "plot", "savefig"}
ChartError == "main thread is not in main loop"

Contents ==
    {"**Strong** position near the 52-week high. " \o Backtick \o "P/E" \o Backtick
        \o " is _fair_. # Outlook: stable"}
    \cup {Repeat("x", n) : n \in (MaxContentLen - 2)..MaxContentLen}
    \cup {Repeat("*_", 100) \o Repeat("x", MaxContentLen)}

AnalysisResponses ==
    {[kind |-> "timeout"],
     [kind |-> "request_error", text |-> "Connection refused"],
     [kind |-> "http", text |-> "{\"error\": \"Invalid API key\"}"],
     [kind |-> "no_choices"],
     [kind |-> "malformed"]}
    \cup {[kind |-> "content", text |-> c] : c \in Contents}

\* what a failing transport call raises
TransportError == "Timed out"

\* evaluating the name analysis before line 302 has bound it
UnboundAnalysis ==
    "cannot access local variable 'analysis' where it is not associated with a value"

-----------------------------------------------------------------------------
(* handle_stock, one step for each call it makes.                          *)

VARIABLES
    pc,             \* where handle_stock is: "idle" before an update, "done"
                    \* after it returned, "escaped" after it raised
    symbol,         \* line 272
    placeholder,    \* the processing message in the chat: state and text
    photo,          \* the photo reply in the chat
    stock_data,     \* the locals of handle_stock, unbound until assigned
    chart_buf,
    analysis,
    message,
    error_message,
    exc,            \* str() of the exception being handled
    calls,          \* the calls of this request's collaborators, in order
    figures,        \* pyplot's open figures (process-wide)
    handled,        \* updates received so far
    parked          \* the locals of the other run of the coroutine
                    \* handle_stock, suspended at an await (or not started)

vars == <<pc, symbol, placeholder, photo, stock_data, chart_buf, analysis,
          message, error_message, exc, calls, figures, handled, parked>>

Unbound == [bound |-> FALSE]
Bound(v) == [bound |-> TRUE, v |-> v]

NoPlaceholder == [state |-> "none", text |-> ""]
NoPhoto == [sent |-> FALSE]

\* a run of handle_stock that has not started
NotStarted ==
    [pc |-> "idle", symbol |-> "", placeholder |-> NoPlaceholder, photo |-> NoPhoto,
     stock_data |-> Unbound, chart_buf |-> Unbound, analysis |-> Unbound,
     message |-> Unbound, error_message |-> Unbound, exc |-> "", calls |-> <<>>]

Init ==
    /\ pc = "idle"
    /\ symbol = ""
    /\ placeholder = NoPlaceholder
    /\ photo = NoPhoto
    /\ stock_data = Unbound
    /\ chart_buf = Unbound
    /\ analysis = Unbound
    /\ message = Unbound
    /\ error_message = Unbound
    /\ exc = ""
    /\ calls = <<>>
    /\ figures = <<>>
    /\ handled = 0
    /\ parked = NotStarted

\* line 272: an update reaches the handler; its locals are fresh
Receive ==
    /\ pc \in {"idle", "done", "escaped"}
    /\ handled < MaxRequests
    /\ \E text \in Texts : symbol' = Upper(Strip(text))
    /\ pc' = "ack"
    /\ placeholder' = NoPlaceholder
    /\ photo' = NoPhoto
    /\ stock_data' = Unbound
    /\ chart_buf' = Unbound
    /\ analysis' = Unbound
    /\ message' = Unbound
    /\ error_message' = Unbound
    /\ exc' = ""
    /\ calls' = <<>>
    /\ handled' = handled + 1
    /\ UNCHANGED <<figures, parked>>

\* Faulty variant of SendPlaceholder (C8 must detect it): the handler goes
\* on to the data fetch without the acknowledgement.
SendPlaceholderSkipped ==
    /\ pc = "ack"
    /\ pc' = "fetch"
    /\ UNCHANGED <<symbol, placeholder, photo, stock_data, chart_buf, analysis,
                   message, error_message, exc, calls, figures, handled, parked>>

\* lines 275-277, outside the try statement: a failure leaves the handler
SendPlaceholder ==
    /\ pc = "ack"
    /\ \E ok \in BOOLEAN :
          IF ok
          THEN /\ placeholder' = [state |-> "shown",
                                  text |-> "@ Processing " \o symbol \o "... Please wait."]
               /\ calls' = Append(calls, Call("reply_text", symbol, "ok"))
               /\ pc' = "fetch"
               /\ exc' = exc
          ELSE /\ calls' = Append(calls, Call("reply_text", symbol, "raise"))
               /\ pc' = "escaped"
               /\ exc' = TransportError
               /\ UNCHANGED placeholder
    /\ UNCHANGED <<symbol, photo, stock_data, chart_buf, analysis, message,
                   error_message, figures, handled, parked>>

\* lines 283-285; the call stands in the outer try statement, whose handler
\* would take what it raised
Fetch ==
    /\ pc = "fetch"
    /\ \E infoResp \in InfoResponses, histResp \in HistoryResponses :
          LET r == get_stock_data(symbol, infoResp, histResp)
          IN  IF r.raised
              THEN /\ calls' = calls \o r.lookups
                         \o <<Call("get_stock_data", symbol, "raise")>>
                   /\ exc' = r.text
                   /\ pc' = "outer_except"
                   /\ UNCHANGED stock_data
              ELSE /\ stock_data' = Bound(r.result)
                   /\ calls' = calls \o r.lookups
                         \o <<Call("get_stock_data", symbol,
                                   IF r.result.success THEN "ok" ELSE "failure")>>
                   /\ pc' = IF r.result.success THEN "chart" ELSE "fetch_failed"
                   /\ exc' = exc
    /\ UNCHANGED <<symbol, placeholder, photo, chart_buf, analysis, message,
                   error_message, figures, handled, parked>>

\* Faulty variant of FetchErrorText (C5 must detect it): the error of the
\* result is not read.
FetchErrorTextUnknown(data) == "Unknown error"

\* line 286
FetchErrorText(data) == IF "error" \in DOMAIN data THEN data.error ELSE "Unknown error"

\* lines 286-291
EditFetchError ==
    /\ pc = "fetch_failed"
    /\ LET text == "! Error: Unable to fetch data for " \o symbol \o ". Error: "
                        \o FetchErrorText(stock_data.v)
       IN  \E ok \in BOOLEAN :
              IF ok
              THEN /\ placeholder' = [state |-> "shown", text |-> text]
                   /\ calls' = Append(calls, Call("edit_text", text, "ok"))
                   /\ pc' = "done"
                   /\ exc' = exc
              ELSE /\ calls' = Append(calls, Call("edit_text", text, "raise"))
                   /\ pc' = "outer_except"
                   /\ exc' = TransportError
                   /\ UNCHANGED placeholder
    /\ UNCHANGED <<symbol, photo, stock_data, chart_buf, analysis, message,
                   error_message, figures, handled, parked>>

\* line 297
Chart ==
    /\ pc = "chart"
    /\ \E failure \in ChartFailures :
          LET r == generate_chart(figures, stock_data.v.history, failure, ChartError)
          IN  /\ figures' = r.figures
              /\ IF r.raised
                 THEN /\ calls' = Append(calls, Call("generate_chart", failure, "raise"))
                      /\ exc' = r.text
                      /\ pc' = "format_fallback"
                      /\ UNCHANGED chart_buf
                 ELSE /\ calls' = Append(calls, Call("generate_chart", failure, "ok"))
                      /\ chart_buf' = Bound(r.buf)
                      /\ pc' = "analysis"
                      /\ exc' = exc
    /\ UNCHANGED <<symbol, placeholder, photo, stock_data, analysis, message,
                   error_message, handled, parked>>

\* line 302
Analyse ==
    /\ pc = "analysis"
    /\ \E response \in AnalysisResponses :
          LET r == get_perplexity_analysis(stock_data.v, response)
          IN  IF r.raised
              THEN /\ calls' = Append(calls, Call("get_perplexity_analysis",
                                                  IF r.requested THEN response.kind ELSE "",
                                                  "raise"))
                   /\ exc' = r.text
                   /\ pc' = "format_fallback"
                   /\ UNCHANGED analysis
              ELSE /\ calls' = Append(calls, Call("get_perplexity_analysis",
                                                  response.kind, "ok"))
                   /\ analysis' = Bound(r.text)
                   /\ pc' = "format"
                   /\ exc' = exc
    /\ UNCHANGED <<symbol, placeholder, photo, stock_data, chart_buf, message,
                   error_message, figures, handled, parked>>

\* Faulty variant of Format (C9 must detect it): the placeholder is deleted
\* before the photo is sent.
FormatDeleteFirst ==
    /\ pc = "format"
    /\ message' = Bound(format_stock_message(symbol, stock_data.v, analysis.v))
    /\ calls' = Append(calls, Call("format_stock_message", "", "ok"))
    /\ pc' = "delete"
    /\ UNCHANGED <<symbol, placeholder, photo, stock_data, chart_buf, analysis,
                   error_message, exc, figures, handled, parked>>

\* line 306
Format ==
    /\ pc = "format"
    /\ message' = Bound(format_stock_message(symbol, stock_data.v, analysis.v))
    /\ calls' = Append(calls, Call("format_stock_message", "", "ok"))
    /\ pc' = "send_photo"
    /\ UNCHANGED <<symbol, placeholder, photo, stock_data, chart_buf, analysis,
                   error_message, exc, figures, handled, parked>>

\* lines 310-314
SendPhoto ==
    /\ pc = "send_photo"
    /\ \E ok \in BOOLEAN :
          IF ok
          THEN /\ photo' = [sent |-> TRUE, caption |-> message.v, image |-> chart_buf.v]
               /\ calls' = Append(calls, Call("reply_photo", "", "ok"))
               /\ pc' = "delete"
               /\ exc' = exc
          ELSE /\ calls' = Append(calls, Call("reply_photo", "", "raise"))
               /\ pc' = "format_fallback"
               /\ exc' = TransportError
               /\ UNCHANGED photo
    /\ UNCHANGED <<symbol, placeholder, stock_data, chart_buf, analysis, message,
                   error_message, figures, handled, parked>>

\* line 318
DeletePlaceholder ==
    /\ pc = "delete"
    /\ \E ok \in BOOLEAN :
          IF ok
          THEN /\ placeholder' = [state |-> "deleted", text |-> ""]
               /\ calls' = Append(calls, Call("delete", "", "ok"))
               /\ pc' = "done"
               /\ exc' = exc
          ELSE /\ calls' = Append(calls, Call("delete", "", "raise"))
               /\ pc' = "format_fallback"
               /\ exc' = TransportError
               /\ UNCHANGED placeholder
    /\ UNCHANGED <<symbol, photo, stock_data, chart_buf, analysis, message,
                   error_message, figures, handled, parked>>

\* lines 323-324: the two lines the local error_message holds before
\* format_stock_message is called at line 325
FallbackHeader(sym) ==
    "~ *" \o Upper(sym) \o " - Stock Analysis*\n\n"
        \o "! Chart generation failed, but here's the analysis:\n\n"

\* Faulty variant of FallbackText (C18 must detect it): the text says that
\* the chart failed and leaves the formatted quote and analysis out.
FallbackTextNoAnalysis(sym, data, text) == FallbackHeader(sym)

\* lines 323-325
FallbackText(sym, data, text) ==
    FallbackHeader(sym) \o format_stock_message(sym, data, text)

\* lines 320-325, the handler of the inner try: lines 323-324 bind
\* error_message to the header, then line 325 reads the name analysis for the
\* call of format_stock_message; the name is unbound when generate_chart or
\* get_perplexity_analysis raised, and the read raises with error_message
\* left holding the header
FormatFallback ==
    /\ pc = "format_fallback"
    /\ IF analysis.bound
       THEN /\ error_message' = Bound(FallbackText(symbol, stock_data.v, analysis.v))
            /\ calls' = Append(calls, Call("format_stock_message", "fallback", "ok"))
            /\ pc' = "edit_fallback"
            /\ exc' = exc
       ELSE /\ error_message' = Bound(FallbackHeader(symbol))
            /\ exc' = UnboundAnalysis
            /\ pc' = "outer_except"
            /\ UNCHANGED calls
    /\ UNCHANGED <<symbol, placeholder, photo, stock_data, chart_buf, analysis,
                   message, figures, handled, parked>>

\* line 326
EditFallback ==
    /\ pc = "edit_fallback"
    /\ \E ok \in BOOLEAN :
          IF ok
          THEN /\ placeholder' = [state |-> "shown", text |-> error_message.v]
               /\ calls' = Append(calls, Call("edit_text", "fallback", "ok"))
               /\ pc' = "done"
               /\ exc' = exc
          ELSE /\ calls' = Append(calls, Call("edit_text", "fallback", "raise"))
               /\ pc' = "outer_except"
               /\ exc' = TransportError
               /\ UNCHANGED placeholder
    /\ UNCHANGED <<symbol, photo, stock_data, chart_buf, analysis, message,
                   error_message, figures, handled, parked>>

\* line 331
FailureNotice(sym, e) == "! Error processing " \o sym \o ": " \o e \o "\nPlease try again later."

\* lines 328-332, the handler of the outer try: what its edit_text raises
\* leaves handle_stock
OuterExcept ==
    /\ pc = "outer_except"
    /\ \E ok \in BOOLEAN :
          IF ok
          THEN /\ placeholder' = [state |-> "shown", text |-> FailureNotice(symbol, exc)]
               /\ calls' = Append(calls, Call("edit_text", "notice", "ok"))
               /\ pc' = "done"
               /\ exc' = exc
          ELSE /\ calls' = Append(calls, Call("edit_text", "notice", "raise"))
               /\ pc' = "escaped"
               /\ exc' = TransportError
               /\ UNCHANGED placeholder
    /\ UNCHANGED <<symbol, photo, stock_data, chart_buf, analysis, message,
                   error_message, figures, handled, parked>>

\* the awaits of handle_stock: lines 275, 288, 310, 318, 326 and 330
AwaitPoints ==
    {"ack", "fetch_failed", "send_photo", "delete", "edit_fallback", "outer_except"}

\* The running handle_stock gives way to the other one.  A coroutine gives
\* way only at an await, or when it is over or not started; the code
\* between two awaits (get_stock_data, generate_chart,
\* get_perplexity_analysis and format_stock_message are plain calls) runs
\* without interruption.  The locals go with the coroutine; pyplot's
\* figures belong to the process and stay.
Switch ==
    /\ pc \in AwaitPoints \cup {"idle", "done", "escaped"}
    /\ parked' = [pc |-> pc, symbol |-> symbol, placeholder |-> placeholder,
                  photo |-> photo, stock_data |-> stock_data, chart_buf |-> chart_buf,
                  analysis |-> analysis, message |-> message,
                  error_message |-> error_message, exc |-> exc, calls |-> calls]
    /\ pc' = parked.pc
    /\ symbol' = parked.symbol
    /\ placeholder' = parked.placeholder
    /\ photo' = parked.photo
    /\ stock_data' = parked.stock_data
    /\ chart_buf' = parked.chart_buf
    /\ analysis' = parked.analysis
    /\ message' = parked.message
    /\ error_message' = parked.error_message
    /\ exc' = parked.exc
    /\ calls' = parked.calls
    /\ UNCHANGED <<figures, handled>>

\* the quote of a successful fetch is q (true of any other state)
FetchedQuoteIs(data, q) == (data.bound /\ data.v.success) => data.v.info = q

Next ==
    \/ Receive
    \/ SendPlaceholder
    \/ Fetch
    \/ EditFetchError
    \/ Chart
    \/ Analyse
    \/ Format
    \/ SendPhoto
    \/ DeletePlaceholder
    \/ FormatFallback
    \/ EditFallback
    \/ OuterExcept

\* The updates handled one after the other: a handler is over before the
\* next one starts.
Spec == Init /\ [][Next]_vars

\* What the concurrent specification follows of each request: one quote,
\* and the analysis provider timing out; the symbols, the provider failures,
\* the price histories, the failures of the drawing library and of the chat
\* transport are all those of the sequential specification.
Followed ==
    /\ FetchedQuoteIs(stock_data, QuoteFull)
    /\ analysis.bound => analysis.v = AnalysisOfResponse([kind |-> "timeout"])

\* Two requests in flight: two runs of the coroutine handle_stock, given
\* the processor in any order at their awaits, over the one pyplot state
\* of the process.  handle_stock does not settle how many of its runs are
\* in flight (that is the transport's setting), so every schedule of the
\* two is allowed: a schedule with Switch only between requests is the
\* one-after-the-other handling of Spec.
ConcNext ==
    \/ Receive /\ Followed'
    \/ SendPlaceholder /\ Followed'
    \/ Fetch /\ Followed'
    \/ EditFetchError /\ Followed'
    \/ Chart /\ Followed'
    \/ Analyse /\ Followed'
    \/ Format /\ Followed'
    \/ SendPhoto /\ Followed'
    \/ DeletePlaceholder /\ Followed'
    \/ FormatFallback /\ Followed'
    \/ EditFallback /\ Followed'
    \/ OuterExcept /\ Followed'
    \/ Switch

ConcSpec == Init /\ [][ConcNext]_vars

-----------------------------------------------------------------------------
(* Properties.                                                             *)

Called(op) == \E i \in 1..Len(calls) : calls[i].op = op
CalledWith(op, res) == \E i \in 1..Len(calls) : calls[i].op = op /\ calls[i].res = res
NoTransportFailure ==
    \A i \in 1..Len(calls) :
        calls[i].op \in {"reply_text", "reply_photo", "delete", "edit_text"}
            => calls[i].res = "ok"

\* the strings get_perplexity_analysis can return
AnalysisTexts == {AnalysisOfResponse(r) : r \in AnalysisResponses}

ChartFailedPrefix == "Chart generation failed, but here's the analysis:"

\* the placeholder shows the text-only fallback of some analysis
FetchSucceeded == stock_data.bound /\ stock_data.v.success
FetchFailed == stock_data.bound /\ ~stock_data.v.success

ShowsFallback ==
    /\ FetchSucceeded
    /\ placeholder.state = "shown"
    /\ Contains(placeholder.text, ChartFailedPrefix)
    /\ \E a \in AnalysisTexts :
          EndsWith(placeholder.text, format_stock_message(symbol, stock_data.v, a))

\* the placeholder shows the generic failure notice
ShowsNotice ==
    /\ placeholder.state = "shown"
    /\ StartsWith(placeholder.text, "! Error processing " \o symbol \o ": ")

\* C1: when get_stock_data succeeded and generate_chart raised, the request
\* ends (the transport calls succeeding) with the placeholder edited to the
\* text-only message, "Chart generation failed, but here's the analysis:"
\* followed by the output of format_stock_message, and not to the generic
\* "Error processing <symbol>" notice.
C1_ChartFailureGivesFallback ==
    (/\ pc = "done"
     /\ CalledWith("get_stock_data", "ok")
     /\ CalledWith("generate_chart", "raise")
     /\ NoTransportFailure)
        => ShowsFallback /\ ~ShowsNotice

\* C2: format_stock_message is reached, at line 306 or at line 325, only
\* after get_perplexity_analysis was called and returned: the name analysis
\* is bound then.
C2_AnalysisBeforeFormat ==
    pc \in {"format", "format_fallback"}
        => analysis.bound /\ CalledWith("get_perplexity_analysis", "ok")

\* C3: get_perplexity_analysis never raises, whatever the quote snapshot:
\* every call of it returns a string, and a request whose other
\* collaborators all succeed ends with the photo delivered.
C3_AnalysisNeverRaises ==
    /\ ~CalledWith("get_perplexity_analysis", "raise")
    /\ (/\ pc = "done"
        /\ CalledWith("generate_chart", "ok")
        /\ NoTransportFailure)
            => photo.sent

\* C4: once the placeholder was sent no exception leaves handle_stock, and
\* when it has returned either a result was delivered (the photo, or the
\* text-only fallback) or the placeholder shows a failure notice naming the
\* symbol and the error text.
C4_NoExceptionEscapes ==
    placeholder.state # "none" =>
        /\ pc # "escaped"
        /\ pc = "done" =>
              \/ photo.sent
              \/ ShowsFallback
              \/ /\ placeholder.state = "shown"
                 /\ StartsWith(placeholder.text, "! Error")
                 /\ Contains(placeholder.text, symbol)
                 /\ \/ EndsWith(placeholder.text, exc \o "\nPlease try again later.")
                    \/ FetchFailed /\ EndsWith(placeholder.text, stock_data.v.error)

\* the index of the first call of op in calls (0 when there is none)
FirstCall(op) ==
    IF Called(op) THEN CHOOSE i \in 1..Len(calls) :
                            calls[i].op = op /\ \A j \in 1..(i - 1) : calls[j].op # op
    ELSE 0

\* C5: when get_stock_data returns failure, generate_chart,
\* get_perplexity_analysis, format_stock_message and reply_photo are never
\* called in that run; the next call is the edit of the placeholder to the
\* error that names the symbol and carries the fetch error text, and once
\* the transport has taken that edit the run has ended, in Failed: the
\* placeholder shows the error, no photo was sent.
C5_FetchFailureEndsRequest ==
    FetchFailed =>
        /\ ~Called("generate_chart")
        /\ ~Called("get_perplexity_analysis")
        /\ ~Called("format_stock_message")
        /\ ~Called("reply_photo")
        /\ ~photo.sent
        /\ pc \in {"fetch_failed", "outer_except", "done", "escaped"}
        /\ pc # "fetch_failed" =>
              LET e == calls[FirstCall("edit_text")]
              IN  /\ FirstCall("edit_text") = FirstCall("get_stock_data") + 1
                  /\ StartsWith(e.arg, "! Error: Unable to fetch data for " \o symbol)
                  /\ EndsWith(e.arg, "Error: " \o stock_data.v.error)
                  /\ e.res = "ok" =>
                        /\ pc = "done"
                        /\ Len(calls) = FirstCall("edit_text")
                        /\ placeholder = [state |-> "shown", text |-> e.arg]

C5_Witness ==
    /\ FetchFailed
    /\ pc = "done"
    /\ stock_data.v.error = "No historical data available"
    /\ placeholder.state = "shown"
    /\ EndsWith(placeholder.text, "Error: No historical data available")

HintText == "try adding .NS (for NSE) or .BO (for BSE) to the symbol."

HasSuffix(sym) == EndsWith(sym, ".NS") \/ EndsWith(sym, ".BO")

\* the metadata lookup came back without usable metadata: it did not raise,
\* and get_stock_data went on to no history lookup
NoDataCase ==
    /\ stock_data.bound
    /\ Called("info_lookup")
    /\ ~CalledWith("info_lookup", "raise")
    /\ ~Called("history_lookup")

\* C6 as stated: without usable metadata get_stock_data fails with the
\* NoData error, and for every token that carries no .NS/.BO suffix the
\* error text includes the hint suggesting the suffixes.
C6_HintForUnsuffixedToken ==
    NoDataCase =>
        /\ FetchFailed
        /\ StartsWith(stock_data.v.error, "No data available")
        /\ ~HasSuffix(symbol) => Contains(stock_data.v.error, HintText)

\* C6 as amended: without usable metadata get_stock_data fails with the
\* NoData error; the error text includes the hint exactly when the symbol
\* looked up is the token as given (it carries .NS/.BO already, or is not on
\* the allow-list), and for an allow-listed token, looked up with .NS
\* appended, it is the text without the hint.
C6_HintWhenSymbolUnchanged ==
    NoDataCase =>
        /\ FetchFailed
        /\ StartsWith(stock_data.v.error, "No data available")
        /\ Contains(stock_data.v.error, HintText)
              <=> calls[FirstCall("info_lookup")].arg = symbol
        /\ symbol \in AllowList =>
              stock_data.v.error
                  = "No data available for this symbol. Please check if the symbol is correct."
        /\ symbol \notin AllowList =>
              stock_data.v.error = "No data available for " \o symbol
                  \o ". If this is an Indian stock, " \o HintText

C6_Witness ==
    /\ NoDataCase
    /\ symbol = "RELIANCE"
    /\ calls[FirstCall("info_lookup")].arg = "RELIANCE.NS"
    /\ ~Contains(stock_data.v.error, HintText)

TimedOut ==
    \E i \in 1..Len(calls) :
        calls[i].op = "get_perplexity_analysis" /\ calls[i].arg = "timeout"

\* C7: when the analysis provider times out, get_perplexity_analysis returns
\* a string containing "timed out"; with the transport calls succeeding the
\* request goes on to the photo with its caption and ends with it delivered
\* and the placeholder deleted, never in the fallback or the failure notice.
C7_TimeoutStillDelivers ==
    TimedOut =>
        /\ analysis.bound
        /\ Contains(analysis.v, "timed out")
        /\ NoTransportFailure =>
              /\ pc \in {"format", "send_photo", "delete", "done"}
              /\ ~ShowsFallback
              /\ ~ShowsNotice
              /\ pc = "done" =>
                    /\ photo.sent
                    /\ Contains(photo.caption, "timed out")
                    /\ photo.image = [png |-> stock_data.v.history]
                    /\ placeholder.state = "deleted"

C7_Witness ==
    /\ TimedOut
    /\ pc = "done"
    /\ photo.sent
    /\ Contains(photo.caption, "Unable to generate analysis: Request timed out")

SlowCalls ==
    {"info_lookup", "history_lookup", "get_stock_data", "generate_chart",
     "get_perplexity_analysis"}

\* C8: the placeholder reply_text has completed before the first market-data
\* lookup, chart render or analysis request of the run.
C8_PlaceholderBeforeSlowWork ==
    /\ \A i \in 1..Len(calls) :
          calls[i].op \in SlowCalls =>
              \E j \in 1..(i - 1) : calls[j].op = "reply_text" /\ calls[j].res = "ok"
    /\ pc \in {"fetch", "chart", "analysis"} =>
          placeholder = [state |-> "shown",
                         text |-> "@ Processing " \o symbol \o "... Please wait."]

C8_Witness ==
    /\ Called("get_perplexity_analysis")
    /\ Called("generate_chart")
    /\ calls[1] = Call("reply_text", symbol, "ok")
    /\ FirstCall("info_lookup") = 2

\* C9: the placeholder is deleted only after the photo was delivered, and
\* never in a run without a delivered photo; the photo carries the output of
\* format_stock_message as its caption (compared with the function where
\* the photo has just been sent, and with the local message from then on);
\* and when rendering, analysis and the transport calls succeed the run ends
\* with the photo delivered and the placeholder deleted.
C9_PhotoThenDelete ==
    /\ Called("delete") =>
          /\ photo.sent
          /\ CalledWith("reply_photo", "ok")
          /\ FirstCall("reply_photo") < FirstCall("delete")
    /\ placeholder.state = "deleted" => photo.sent
    /\ photo.sent =>
          /\ photo.caption = message.v
          /\ photo.image = [png |-> stock_data.v.history]
    /\ pc = "delete" =>
          /\ photo.sent
          /\ photo.caption = format_stock_message(symbol, stock_data.v, analysis.v)
    /\ (/\ pc = "done"
        /\ CalledWith("generate_chart", "ok")
        /\ CalledWith("get_perplexity_analysis", "ok")
        /\ NoTransportFailure)
            => photo.sent /\ placeholder.state = "deleted"

C9_Witness ==
    /\ pc = "done"
    /\ photo.sent
    /\ placeholder.state = "deleted"
    /\ calls[Len(calls)] = Call("delete", "", "ok")

\* C10: the string format_stock_message returns is at most 1000 characters
\* long; when the composition is longer than 1000 it is its first 997
\* characters followed by "...", 1000 characters in all, and otherwise it
\* is the composition unchanged.  The result is looked at where line 306
\* has just assigned it.
C10_MessageLength ==
    pc = "send_photo" =>
        LET composed == ComposeMessage(symbol, stock_data.v, analysis.v)
        IN  /\ Len(message.v) <= 1000
            /\ Len(composed) > 1000 =>
                  /\ Len(message.v) = 1000
                  /\ message.v = SubSeq(composed, 1, 997) \o "..."
            /\ Len(composed) <= 1000 => message.v = composed

C10_Witness ==
    /\ pc = "send_photo"
    /\ Len(ComposeMessage(symbol, stock_data.v, analysis.v)) = 1001
    /\ Len(message.v) = 1000
    /\ EndsWith(message.v, "x...")

-----------------------------------------------------------------------------
(* get_stock_data on its own: the handler stands at line 283 with the      *)
(* placeholder sent, for a wider set of symbols than the chat texts above. *)

\* symbols as line 272 leaves them (stripped, upper case): the allow-list,
\* the allow-list with either suffix, and symbols that are neither
LookupTokens ==
    AllowList
        \cup {t \o ".NS" : t \in AllowList}
        \cup {t \o ".BO" : t \in AllowList}
        \cup {"AAPL", "MSFT", "SBI", "RELIANCENS", "TCS.NSE", "INFY.B", "NS", ".NS",
              "WIPRO.NS.X", "HDFC BANK"}

LookupInit ==
    /\ pc = "fetch"
    /\ symbol \in LookupTokens
    /\ placeholder = [state |-> "shown",
                      text |-> "@ Processing " \o symbol \o "... Please wait."]
    /\ photo = NoPhoto
    /\ stock_data = Unbound
    /\ chart_buf = Unbound
    /\ analysis = Unbound
    /\ message = Unbound
    /\ error_message = Unbound
    /\ exc = ""
    /\ calls = <<Call("reply_text", symbol, "ok")>>
    /\ figures = <<>>
    /\ handled = 1
    /\ parked = NotStarted

LookupSpec == LookupInit /\ [][Fetch]_vars

\* the provider lookups of the run, in order
Lookups == {i \in 1..Len(calls) : calls[i].op \in {"info_lookup", "history_lookup"}}

\* C11: every provider lookup of get_stock_data is made for the resolved
\* symbol: the token with ".NS" appended when the token is on the allow-list
\* (RELIANCE, TCS, HDFCBANK, INFY, SBIN, TATAMOTORS, WIPRO), and the token
\* itself when it ends in .NS or .BO and for every other token; the metadata
\* lookup, which comes first, and the history lookup are made for the same
\* symbol.
C11_SymbolResolution ==
    /\ \A i \in Lookups :
          /\ symbol \in {"RELIANCE", "TCS", "HDFCBANK", "INFY", "SBIN", "TATAMOTORS",
                         "WIPRO"}
                => calls[i].arg = symbol \o ".NS"
          /\ (EndsWith(symbol, ".NS") \/ EndsWith(symbol, ".BO"))
                => calls[i].arg = symbol
          /\ symbol \notin {"RELIANCE", "TCS", "HDFCBANK", "INFY", "SBIN", "TATAMOTORS",
                            "WIPRO"}
                => calls[i].arg = symbol
    /\ \A i, j \in Lookups : calls[i].arg = calls[j].arg
    /\ Called("history_lookup") =>
          /\ Called("info_lookup")
          /\ FirstCall("info_lookup") < FirstCall("history_lookup")
    /\ stock_data.bound => Called("info_lookup")

C11_Witness ==
    /\ symbol = "TATAMOTORS"
    /\ Called("history_lookup")
    /\ \A i \in Lookups : calls[i].arg = "TATAMOTORS.NS"

\* C12: generate_chart releases every figure it opened before it returns or
\* raises: between the calls of generate_chart (each call is one step here)
\* no figure is open.
C12_FiguresReleased == Len(figures) = 0

\* the placeholder still shows the acknowledgement of lines 275-277
ShowsProcessing ==
    placeholder = [state |-> "shown",
                   text |-> "@ Processing " \o symbol \o "... Please wait."]

\* C14: a request that has sent its placeholder ends in a terminal state,
\* Delivered or Failed: when handle_stock is over it has returned, the
\* placeholder no longer shows "Processing", and unless the photo was
\* delivered and the placeholder deleted the placeholder shows an error or
\* the fallback text.
C14_EndsWithVisibleMessage ==
    (pc \in {"done", "escaped"} /\ placeholder.state # "none") =>
        /\ pc = "done"
        /\ ~ShowsProcessing
        /\ \/ photo.sent /\ placeholder.state = "deleted"
           \/ /\ placeholder.state = "shown"
              /\ \/ StartsWith(placeholder.text, "! Error")
                 \/ Contains(placeholder.text, ChartFailedPrefix)

\* what the provider raised in the lookup op of this run, if it raised
RaisedIn(op, responses) ==
    {r.text : r \in {x \in responses : x.kind = "raise" /\ CalledWith(op, "raise")}}

\* C15: get_stock_data never raises.  When the provider raised in the
\* metadata lookup or in the history lookup the result is a failure whose
\* error is the message of what was raised, and a success result carries the
\* metadata and the history the two lookups returned.
C15_FetchNeverRaises ==
    /\ ~CalledWith("get_stock_data", "raise")
    /\ Called("info_lookup") => stock_data.bound /\ Called("get_stock_data")
    /\ stock_data.bound =>
          /\ "success" \in DOMAIN stock_data.v
          /\ \A op \in {"info_lookup", "history_lookup"} :
                CalledWith(op, "raise") =>
                    /\ DOMAIN stock_data.v = {"success", "error"}
                    /\ ~stock_data.v.success
                    /\ stock_data.v.error
                          \in RaisedIn(op, InfoResponses) \cup RaisedIn(op, HistoryResponses)
          /\ stock_data.v.success =>
                /\ DOMAIN stock_data.v = {"success", "info", "history"}
                /\ CalledWith("info_lookup", "value")
                /\ CalledWith("history_lookup", "value")
                /\ [kind |-> "value", info |-> stock_data.v.info] \in InfoResponses
                /\ [kind |-> "value", history |-> stock_data.v.history]
                      \in HistoryResponses

C15_Witness ==
    /\ CalledWith("history_lookup", "raise")
    /\ FetchFailed
    /\ stock_data.v.error = "Connection aborted."
    /\ pc = "fetch_failed"

\* C16: generate_chart is called only with a price history that is not
\* empty.  Whenever the history lookup answered with an empty series
\* get_stock_data returned the failure "No historical data available" and
\* generate_chart is not called; and a history lookup is made only after the
\* metadata lookup answered with metadata that holds the live price field
\* 'regularMarketPrice'.
C16_NoChartOfEmptyHistory ==
    /\ Called("generate_chart") =>
          /\ FetchSucceeded
          /\ Len(stock_data.v.history) > 0
    /\ chart_buf.bound => Len(chart_buf.v.png) > 0
    /\ \A i \in 1..Len(calls) :
          calls[i].op = "history_lookup" =>
              /\ \E j \in 1..(i - 1) :
                    /\ calls[j].op = "info_lookup"
                    /\ calls[j].answer.kind = "value"
                    /\ "regularMarketPrice" \in DOMAIN calls[j].answer.info
              /\ (calls[i].answer.kind = "value" /\ Len(calls[i].answer.history) = 0) =>
                    /\ FetchFailed
                    /\ stock_data.v = [success |-> FALSE,
                                       error |-> "No historical data available"]
                    /\ ~Called("generate_chart")

C16_Witness ==
    /\ pc = "done"
    /\ \E i \in 1..Len(calls) :
          /\ calls[i].op = "history_lookup"
          /\ calls[i].answer = [kind |-> "value", history |-> <<>>]
    /\ stock_data.v.error = "No historical data available"
    /\ ~Called("generate_chart")

\* C17: a request has one final outcome at most: once the photo with its
\* caption was delivered the placeholder is never edited to the "Chart
\* generation failed" text nor to the generic failure notice, also when the
\* delete of the placeholder fails.
C17_OneFinalOutcome ==
    photo.sent =>
        ~(/\ placeholder.state = "shown"
          /\ \/ Contains(placeholder.text, ChartFailedPrefix)
             \/ StartsWith(placeholder.text, "! Error processing "))

\* the index of the reply_photo call that raised (0 when there is none)
PhotoFailedAt ==
    IF CalledWith("reply_photo", "raise")
    THEN CHOOSE i \in 1..Len(calls) : calls[i].op = "reply_photo" /\ calls[i].res = "raise"
    ELSE 0

\* C18: when the chart was rendered and the analysis obtained and reply_photo
\* raises, the handler composes the text-only fallback, the header and the
\* "Chart generation failed" line followed by the output of
\* format_stock_message for the same symbol, quote and analysis, and edits
\* the placeholder to it: these are its next two calls, and once the
\* transport has taken the edit the handler has returned with the
\* placeholder showing that text and no photo sent.
C18_PhotoFailureGivesFallback ==
    PhotoFailedAt > 0 =>
        /\ chart_buf.bound /\ analysis.bound /\ message.bound
        /\ ~photo.sent
        /\ pc \in {"format_fallback", "edit_fallback", "outer_except", "done", "escaped"}
        /\ pc # "format_fallback" =>
              /\ calls[PhotoFailedAt + 1] = Call("format_stock_message", "fallback", "ok")
              /\ error_message.bound
              /\ error_message.v
                    = "~ *" \o symbol \o " - Stock Analysis*\n\n! " \o ChartFailedPrefix
                        \o "\n\n" \o message.v
        /\ pc = "edit_fallback" =>
              EndsWith(error_message.v,
                       format_stock_message(symbol, stock_data.v, analysis.v))
        /\ pc \in {"outer_except", "done", "escaped"} =>
              /\ calls[PhotoFailedAt + 2].op = "edit_text"
              /\ calls[PhotoFailedAt + 2].arg = "fallback"
              /\ calls[PhotoFailedAt + 2].res = "ok" =>
                    /\ pc = "done"
                    /\ Len(calls) = PhotoFailedAt + 2
                    /\ placeholder = [state |-> "shown", text |-> error_message.v]

C18_Witness ==
    /\ pc = "done"
    /\ PhotoFailedAt > 0
    /\ CalledWith("generate_chart", "ok")
    /\ placeholder.state = "shown"
    /\ Contains(placeholder.text, ChartFailedPrefix)
    /\ EndsWith(placeholder.text, message.v)
    /\ Contains(placeholder.text, "Strong position near the 52-week high.")

\* the chart and the photo of the request with the locals r are drawn from
\* the price history of that request's own stock_data
OwnChart(r) ==
    /\ r.chart_buf.bound => r.chart_buf.v = [png |-> r.stock_data.v.history]
    /\ r.photo.sent =>
          /\ r.photo.image = [png |-> r.stock_data.v.history]
          /\ r.photo.caption = r.message.v

\* the locals of the coroutine that is running
Running ==
    [pc |-> pc, symbol |-> symbol, placeholder |-> placeholder, photo |-> photo,
     stock_data |-> stock_data, chart_buf |-> chart_buf, analysis |-> analysis,
     message |-> message, error_message |-> error_message, exc |-> exc,
     calls |-> calls]

RenderFailed(r) ==
    \E i \in 1..Len(r.calls) :
        r.calls[i].op = "generate_chart" /\ r.calls[i].res = "raise"

\* C13: in every interleaving of two concurrently handled requests the chart
\* rendered for a request, and the photo delivered for it, is drawn from that
\* request's own price history, whatever figures earlier renders (of either
\* request) left open; and no figure is left holding the drawing of a
\* request that is suspended in the middle of a render: a suspended request
\* has its chart in its own buffer or has none.
C13_ChartFromOwnHistory ==
    /\ OwnChart(Running)
    /\ OwnChart(parked)
    /\ parked.pc \in AwaitPoints \cup {"idle", "done", "escaped"}
    /\ parked.pc \in {"send_photo", "delete"} => parked.chart_buf.bound

\* a photo is delivered for one request while the other request, whose
\* render failed and left its drawing in an open figure, is suspended at
\* the await of its error notice
C13_Witness ==
    /\ photo.sent
    /\ photo.image = [png |-> <<151, 149>>]
    /\ parked.pc = "outer_except"
    /\ RenderFailed(parked)
    /\ parked.stock_data.v.history = <<2440, 2461, 2456>>
    /\ FirstCall("generate_chart") > 0
    /\ \E i \in 1..Len(figures) : figures[i].lines = <<2440, 2461, 2456>>

=============================================================================
